---- MODULE Spec2Model ----
(***************************************************************************)
(* Model of sync-ldap-subtrees (src/bin/sync_ldap_subtrees.rs): one run of *)
(* do_sync is search -> diff -> sort -> apply, and a further run may start *)
(* once a run has ended.                                                   *)
(*                                                                         *)
(* Strings (Rust String) and byte strings (Vec<u8>) are sequences of byte  *)
(* codes.  A String holds ASCII codes (< 128); a byte >= 128 stands for a  *)
(* value that is not valid UTF-8.  String::as_bytes is therefore the       *)
(* embedding of the one representation in the other.                       *)
(***************************************************************************)
EXTENDS Integers, Sequences, FiniteSets, TLC

(***************************************************************************)
(* Bounds of the model.                                                    *)
(***************************************************************************)
\* number of runs of do_sync a behaviour holds
MaxRuns == 2
\* number of values of one attribute of an entry
MaxVals == 2

(***************************************************************************)
(* Strings.                                                                *)
(***************************************************************************)
\* the byte-wise lexicographic order of str / [u8] (Ord for String, Vec<u8>)
RECURSIVE StrLess(_, _)
StrLess(a, b) ==
    IF b = <<>> THEN FALSE
    ELSE IF a = <<>> THEN TRUE
    ELSE IF a[1] # b[1] THEN a[1] < b[1]
    ELSE StrLess(Tail(a), Tail(b))

\* str::to_lowercase on ASCII text
to_lowercase(s) ==
    [i \in 1..Len(s) |-> IF s[i] \in 65..90 THEN s[i] + 32 ELSE s[i]]

\* std::str::from_utf8(v).is_ok(): how ldap3 tells text from binary values
IsUtf8(v) == \A i \in 1..Len(v) : v[i] < 128

StartsWith(s, p) == Len(p) <= Len(s) /\ SubSeq(s, 1, Len(p)) = p

EndsWith(s, p) ==
    Len(p) <= Len(s) /\ SubSeq(s, Len(s) - Len(p) + 1, Len(s)) = p

\* does pattern p occur in s
Contains(s, p) ==
    \E i \in 1..(Len(s) - Len(p) + 1) : SubSeq(s, i, i + Len(p) - 1) = p

\* str::replace: every non-overlapping match of a non-empty pattern, left to
\* right, is substituted; the substituted text is not searched again
RECURSIVE replace(_, _, _)
replace(s, from, to) ==
    IF Len(s) < Len(from) \/ from = <<>> THEN s
    ELSE IF StartsWith(s, from)
         THEN to \o replace(SubSeq(s, Len(from) + 1, Len(s)), from, to)
         ELSE <<s[1]>> \o replace(Tail(s), from, to)

\* format!("{},{}", a, b)
JoinDn(a, b) == a \o <<44>> \o b

\* str::strip_suffix(",<base_dn>"): <<TRUE, rest>> for Some(rest), else None
strip_suffix(dn, base_dn) ==
    LET suffix == <<44>> \o base_dn
    IN  IF EndsWith(dn, suffix)
        THEN <<TRUE, SubSeq(dn, 1, Len(dn) - Len(suffix))>>
        ELSE <<FALSE, <<>>>>

(***************************************************************************)
(* Distinguished names.  dn_parser splits a DN at its commas into RDNs and *)
(* an RDN at its "=" into attribute type and value.                        *)
(***************************************************************************)
RECURSIVE SplitAt(_, _)
SplitAt(s, c) ==
    IF \A i \in 1..Len(s) : s[i] # c THEN <<s>>
    ELSE LET k == CHOOSE i \in 1..Len(s) :
                      s[i] = c /\ \A j \in 1..(i - 1) : s[j] # c
         IN  <<SubSeq(s, 1, k - 1)>> \o SplitAt(SubSeq(s, k + 1, Len(s)), c)

\* the RDN as the pair <<type, value>>
ParseRdn(r) ==
    IF \A i \in 1..Len(r) : r[i] # 61 THEN <<r, <<>>>>
    ELSE LET k == CHOOSE i \in 1..Len(r) :
                      r[i] = 61 /\ \A j \in 1..(i - 1) : r[j] # 61
         IN  <<SubSeq(r, 1, k - 1), SubSeq(r, k + 1, Len(r))>>

\* dn_parser().parse(dn): the RDNs, leaf first
ParseDn(dn) == LET parts == SplitAt(dn, 44)
               IN  [i \in 1..Len(parts) |-> ParseRdn(parts[i])]

\* Ord of RelativeDistinguishedName: type first, then value
RdnCmp(r1, r2) ==
    IF r1 = r2 THEN "Equal"
    ELSE IF r1[1] # r2[1]
         THEN (IF StrLess(r1[1], r2[1]) THEN "Less" ELSE "Greater")
         ELSE (IF StrLess(r1[2], r2[2]) THEN "Less" ELSE "Greater")

Reverse(s) == [i \in 1..Len(s) |-> s[Len(s) + 1 - i]]

RECURSIVE LexRdns(_, _)
LexRdns(a, b) ==
    IF a = <<>> /\ b = <<>> THEN "Equal"
    ELSE IF a = <<>> THEN "Less"
    ELSE IF b = <<>> THEN "Greater"
    ELSE IF RdnCmp(a[1], b[1]) # "Equal" THEN RdnCmp(a[1], b[1])
    ELSE LexRdns(Tail(a), Tail(b))

\* Ord of DistinguishedName: the RDNs compared from the root, so that an
\* ancestor is less than each of its descendants
DnCmp(d1, d2) == LexRdns(Reverse(d1), Reverse(d2))

\* p is a proper ancestor of c (both relative DNs as strings)
IsAncestor(p, c) == p # c /\ EndsWith(c, <<44>> \o p)

(***************************************************************************)
(* Maps (HashMap) as functions, sets (HashSet) as sets.                    *)
(***************************************************************************)
EmptyMap == [x \in {} |-> <<>>]

MapRemove(m, k) == [x \in (DOMAIN m) \ {k} |-> m[x]]

MapPut(m, k, v) == [x \in (DOMAIN m) \cup {k} |-> IF x = k THEN v ELSE m[x]]

SeqToSet(s) == {s[i] : i \in 1..Len(s)}

\* Vec::sort on strings (the result is the same for every stable sort)
RECURSIVE SortStrs(_)
SortStrs(s) ==
    IF s = <<>> THEN <<>>
    ELSE LET k == CHOOSE i \in 1..Len(s) :
                      /\ \A j \in 1..Len(s) : ~StrLess(s[j], s[i])
                      /\ \A j \in 1..(i - 1) : s[j] # s[i]
         IN  <<s[k]>> \o
             SortStrs([i \in 1..(Len(s) - 1) |-> IF i < k THEN s[i] ELSE s[i + 1]])

\* the sequences that list the set S once each: the orders in which a HashSet
\* or HashMap, or a server answering a search, may yield its elements
RECURSIVE Orderings(_)
Orderings(S) ==
    IF S = {} THEN {<<>>}
    ELSE UNION {{<<x>> \o t : t \in Orderings(S \ {x})} : x \in S}

\* a set in ascending order
SetToSorted(S) == CHOOSE s \in Orderings(S) : s = SortStrs(s)

\* Option<T>: None is <<>>, Some(x) is <<x>>
MapGet(m, k) == IF k \in DOMAIN m THEN <<m[k]>> ELSE <<>>

(***************************************************************************)
(* The source schema (query_ldap_schema), as the two lookups do_sync makes *)
(* of it.  An attribute the schema does not describe yields None.          *)
(***************************************************************************)
DN_SYNTAX_OID == "1.3.6.1.4.1.1466.115.121.1.12"

\* find_attribute_type_property(attr_name, |at| at.syntax.as_ref())
Syntax(attr_name) ==
    CASE attr_name = "member" -> <<DN_SYNTAX_OID>>
      [] attr_name = "objectClass" -> <<"1.3.6.1.4.1.1466.115.121.1.38">>
      [] attr_name = "mail" -> <<"1.3.6.1.4.1.1466.115.121.1.26">>
      [] attr_name = "cn" -> <<"1.3.6.1.4.1.1466.115.121.1.15">>
      [] OTHER -> <<>>

\* find_attribute_type_property(attr_name, |at| at.equality.as_ref())
Equality(attr_name) ==
    CASE attr_name = "member" -> <<"distinguishedNameMatch">>
      [] attr_name = "objectClass" -> <<"objectIdentifierMatch">>
      [] attr_name = "mail" -> <<"caseIgnoreIA5Match">>
      [] attr_name = "cn" -> <<"caseExactMatch">>
      [] OTHER -> <<>>

\* equality.describes_case_insensitive_match()
describes_case_insensitive_match(rule) ==
    rule \in {"caseIgnoreMatch", "caseIgnoreIA5Match"}

(***************************************************************************)
(* The diff crate: Diff::diff on HashMap and on Vec.                       *)
(***************************************************************************)
\* HashMapDiff.altered: the keys of other that self lacks or maps to another
\* value
HashMapAltered(self, other) ==
    {k \in DOMAIN other : k \notin DOMAIN self \/ self[k] # other[k]}

\* HashMapDiff.removed: the keys of self that other lacks
HashMapRemoved(self, other) == (DOMAIN self) \ (DOMAIN other)

\* find_match: the first pair of equal elements, by growing x + y and, for
\* one x + y, falling x; <<found, x, y>> counted from 0
find_match(a, b) ==
    LET hits == {xy \in (0..(Len(a) - 1)) \X (0..(Len(b) - 1)) :
                     a[xy[1] + 1] = b[xy[2] + 1]}
    IN  IF hits = {} THEN <<FALSE, Len(a), Len(b)>>
        ELSE LET h == CHOOSE h \in hits : \A g \in hits :
                          \/ h[1] + h[2] < g[1] + g[2]
                          \/ h[1] + h[2] = g[1] + g[2] /\ h[1] >= g[1]
             IN  <<TRUE, h[1], h[2]>>

\* Vec::diff: the kinds of the VecDiffType changes, in order
RECURSIVE VecDiff(_, _)
VecDiff(a, b) ==
    LET m == find_match(a, b)
        deletions == m[2]
        insertions == m[3]
        changes ==
            IF deletions = 0 \/ insertions = 0
            THEN (IF deletions > 0 THEN <<"Removed">>
                  ELSE IF insertions > 0 THEN <<"Inserted">> ELSE <<>>)
            ELSE IF deletions = insertions THEN <<"Altered">>
            ELSE IF deletions > insertions THEN <<"Altered", "Removed">>
            ELSE <<"Altered", "Inserted">>
    IN  IF m[1]
        THEN changes \o VecDiff(SubSeq(a, deletions + 2, Len(a)),
                                SubSeq(b, insertions + 2, Len(b)))
        ELSE changes

\* the changes recorded for key k of HashMapDiff.altered: a key self lacks
\* is diffed against Vec::identity()
AlteredChanges(self, other, k) ==
    VecDiff(IF k \in DOMAIN self THEN self[k] ELSE <<>>, other[k])

(***************************************************************************)
(* mod_value and the Differ of do_sync.                                    *)
(***************************************************************************)
Mod(kind, attr, vals) == [kind |-> kind, attr |-> attr, vals |-> vals]

\* ReplacementValues without the replacement of the base DN
ReplacementValues_NoRewrite(attr_name, values, src_base, dst_base, opts) ==
    IF attr_name = "objectClass"
    THEN values \ opts.ignore_object_classes
    ELSE values

\* ReplacementValues without the removal of the ignored object classes
ReplacementValues_NoFilter(attr_name, values, src_base, dst_base, opts) ==
    IF Syntax(attr_name) = <<DN_SYNTAX_OID>>
    THEN {replace(s, src_base, dst_base) : s \in values}
    ELSE values

\* the replacement values of a source attribute: ignored object classes
\* removed, the base DN replaced in values of DN syntax
ReplacementValues(attr_name, values, src_base, dst_base, opts) ==
    LET filtered == IF attr_name = "objectClass"
                    THEN values \ opts.ignore_object_classes
                    ELSE values
    IN  IF Syntax(attr_name) = <<DN_SYNTAX_OID>>
        THEN {replace(s, src_base, dst_base) : s \in filtered}
        ELSE filtered

\* ValuesIdentical with the case sensitive comparison alone
ValuesIdentical_CaseSensitive(attr_name, replacement_values, destination_values) ==
    SetToSorted(replacement_values) = SortStrs(destination_values)

\* the two comparisons of mod_value that skip an attribute
ValuesIdentical(attr_name, replacement_values, destination_values) ==
    LET sorted_dst == SortStrs(destination_values)
        sorted_rep == SetToSorted(replacement_values)
        lower(s) == SortStrs([i \in 1..Len(s) |-> to_lowercase(s[i])])
    IN  \/ sorted_rep = sorted_dst
        \/ /\ Equality(attr_name) # <<>>
           /\ describes_case_insensitive_match(Equality(attr_name)[1])
           /\ lower(sorted_dst) = lower(sorted_rep)

mod_value(attr_name, source_entry, src_base, destination_entry, dst_base, opts) ==
    IF attr_name \in DOMAIN source_entry.attrs
    THEN LET replacement_values ==
                 ReplacementValues(attr_name,
                                   SeqToSet(source_entry.attrs[attr_name]),
                                   src_base, dst_base, opts)
         IN  IF /\ destination_entry # <<>>
                /\ attr_name \in DOMAIN destination_entry[1].attrs
                /\ ValuesIdentical(attr_name, replacement_values,
                                   destination_entry[1].attrs[attr_name])
             THEN <<>>
             ELSE <<Mod("Replace", attr_name, replacement_values)>>
    ELSE <<Mod("Delete", attr_name, {})>>

\* PushUnique without the test
PushUnique_Always(mods, m) == Append(mods, m)

\* if !mods.contains(&m) { mods.push(m) }
PushUnique(mods, m) ==
    IF \E i \in 1..Len(mods) : mods[i] = m THEN mods ELSE Append(mods, m)

\* one mod_value call per value change of one altered text attribute
RECURSIVE TextChangeMods(_, _, _, _, _, _, _, _)
TextChangeMods(mods, changes, attr_name, s, src_base, d, dst_base, opts) ==
    IF changes = <<>> THEN mods
    ELSE LET m == mod_value(attr_name, s, src_base, <<d>>, dst_base, opts)
         IN  TextChangeMods(IF m = <<>> THEN mods ELSE PushUnique(mods, m[1]),
                            Tail(changes), attr_name, s, src_base, d,
                            dst_base, opts)

\* the loop over change.attrs.altered, in the order the map yields its keys
RECURSIVE TextAlteredMods(_, _, _, _, _, _, _)
TextAlteredMods(mods, order, s, src_base, d, dst_base, opts) ==
    IF order = <<>> THEN mods
    ELSE LET attr_name == order[1]
             next == IF attr_name \in opts.ignore_attributes THEN mods
                     ELSE TextChangeMods(mods,
                              AlteredChanges(s.attrs, d.attrs, attr_name),
                              attr_name, s, src_base, d, dst_base, opts)
         IN  TextAlteredMods(next, Tail(order), s, src_base, d, dst_base, opts)

\* TextRemovedMods that adds the source values as they are
RECURSIVE TextRemovedMods_Raw(_, _, _, _, _, _)
TextRemovedMods_Raw(mods, order, s, src_base, dst_base, opts) ==
    IF order = <<>> THEN mods
    ELSE LET attr_name == order[1]
             next == IF attr_name \in opts.ignore_attributes THEN mods
                     ELSE Append(mods,
                              Mod("Add", attr_name, SeqToSet(s.attrs[attr_name])))
         IN  TextRemovedMods_Raw(next, Tail(order), s, src_base, dst_base, opts)

\* the loop over change.attrs.removed
RECURSIVE TextRemovedMods(_, _, _, _, _, _)
TextRemovedMods(mods, order, s, src_base, dst_base, opts) ==
    IF order = <<>> THEN mods
    ELSE LET attr_name == order[1]
             next == IF attr_name \in opts.ignore_attributes THEN mods
                     ELSE Append(mods,
                              Mod("Add", attr_name,
                                  ReplacementValues(attr_name,
                                      SeqToSet(s.attrs[attr_name]),
                                      src_base, dst_base, opts)))
         IN  TextRemovedMods(next, Tail(order), s, src_base, dst_base, opts)

\* the mods of one value change of one altered binary attribute
RECURSIVE BinChangeMods(_, _, _, _)
BinChangeMods(mods, changes, attr_name, s) ==
    IF changes = <<>> THEN mods
    ELSE BinChangeMods(
             IF attr_name \in DOMAIN s.bin_attrs
             THEN PushUnique(mods, Mod("Replace", attr_name,
                                       SeqToSet(s.bin_attrs[attr_name])))
             ELSE Append(mods, Mod("Delete", attr_name, {})),
             Tail(changes), attr_name, s)

\* the loop over change.bin_attrs.altered
RECURSIVE BinAlteredMods(_, _, _, _, _)
BinAlteredMods(mods, order, s, d, opts) ==
    IF order = <<>> THEN mods
    ELSE LET attr_name == order[1]
             next == IF attr_name \in opts.ignore_attributes THEN mods
                     ELSE BinChangeMods(mods,
                              AlteredChanges(s.bin_attrs, d.bin_attrs, attr_name),
                              attr_name, s)
         IN  BinAlteredMods(next, Tail(order), s, d, opts)

\* the loop over change.bin_attrs.removed
RECURSIVE BinRemovedMods(_, _, _, _)
BinRemovedMods(mods, order, s, opts) ==
    IF order = <<>> THEN mods
    ELSE LET attr_name == order[1]
             next == IF attr_name \in opts.ignore_attributes THEN mods
                     ELSE Append(mods, Mod("Add", attr_name,
                                           SeqToSet(s.bin_attrs[attr_name])))
         IN  BinRemovedMods(next, Tail(order), s, opts)

OpAdd(entry) == [op |-> "Add", dn |-> entry.dn, entry |-> entry]

OpDelete(dn) == [op |-> "Delete", dn |-> dn]

OpModify(dn, mods, bin_mods) ==
    [op |-> "Modify", dn |-> dn, mods |-> mods, bin_mods |-> bin_mods]

\* NewEntry that keeps the ignored attributes
NewEntry_KeepIgnored(s, src_base, dst_base, opts) ==
    LET ioc == opts.ignore_object_classes
        value(a) ==
            LET v == IF a = "objectClass"
                     THEN SelectSeq(s.attrs[a], LAMBDA x : x \notin ioc)
                     ELSE s.attrs[a]
            IN  IF Syntax(a) = <<DN_SYNTAX_OID>>
                THEN [i \in 1..Len(v) |-> replace(v[i], src_base, dst_base)]
                ELSE v
    IN  [dn |-> s.dn,
         attrs |-> [a \in DOMAIN s.attrs |-> value(a)],
         bin_attrs |-> s.bin_attrs]

\* the entry an Add carries: ignored attributes dropped, ignored object
\* classes filtered out of objectClass, the base DN replaced in DN syntax
NewEntry(s, src_base, dst_base, opts) ==
    LET kept == (DOMAIN s.attrs) \ opts.ignore_attributes
        ioc == opts.ignore_object_classes
        value(a) ==
            LET v == IF a = "objectClass"
                     THEN SelectSeq(s.attrs[a], LAMBDA x : x \notin ioc)
                     ELSE s.attrs[a]
            IN  IF Syntax(a) = <<DN_SYNTAX_OID>>
                THEN [i \in 1..Len(v) |-> replace(v[i], src_base, dst_base)]
                ELSE v
    IN  [dn |-> s.dn,
         attrs |-> [a \in kept |-> value(a)],
         bin_attrs |-> [a \in (DOMAIN s.bin_attrs) \ opts.ignore_attributes |->
                            s.bin_attrs[a]]]

(***************************************************************************)
(* operation_apply_cmp and the sort of the plan.                           *)
(***************************************************************************)
\* operation_apply_cmp without the arm for two Adds
operation_apply_cmp_AddsUnordered(a, b) ==
    IF a.op = "Delete" /\ b.op = "Delete"
    THEN DnCmp(ParseDn(a.dn), ParseDn(b.dn))
    ELSE "None"

\* None is "None"; a relative DN of a store always parses
operation_apply_cmp(a, b) ==
    IF a.op = "Add" /\ b.op = "Add"
    THEN DnCmp(ParseDn(a.entry.dn), ParseDn(b.entry.dn))
    ELSE IF a.op = "Delete" /\ b.op = "Delete"
    THEN DnCmp(ParseDn(a.dn), ParseDn(b.dn))
    ELSE "None"

\* the closure given to sort_by, as the is_less the sort calls
is_less(a, b) ==
    LET c == operation_apply_cmp(a, b)
    IN  (IF c = "None" THEN "Equal" ELSE c) = "Less"

\* insertion_sort_shift_left: each element moves left past the elements it
\* is less than
RECURSIVE InsertTail(_, _)
InsertTail(s, x) ==
    IF s = <<>> \/ ~is_less(x, s[Len(s)]) THEN Append(s, x)
    ELSE Append(InsertTail(SubSeq(s, 1, Len(s) - 1), x), s[Len(s)])

RECURSIVE SortShiftLeft(_)
SortShiftLeft(v) ==
    IF v = <<>> THEN <<>>
    ELSE InsertTail(SortShiftLeft(SubSeq(v, 1, Len(v) - 1)), v[Len(v)])

\* insert_head: from the back, each element moves right past the elements
\* that are less than it
RECURSIVE InsertHead(_, _)
InsertHead(x, s) ==
    IF s = <<>> \/ ~is_less(s[1], x) THEN <<x>> \o s
    ELSE <<s[1]>> \o InsertHead(x, Tail(s))

RECURSIVE SortInsertHead(_)
SortInsertHead(v) ==
    IF v = <<>> THEN <<>>
    ELSE InsertHead(v[1], SortInsertHead(Tail(v)))

\* slice::sort_by on a slice of at most 20 elements is an insertion sort; the
\* standard library has shipped the two above
SortImpls == {"insert_head", "shift_left"}

sort_by(impl, v) ==
    IF impl = "insert_head" THEN SortInsertHead(v) ELSE SortShiftLeft(v)

(***************************************************************************)
(* What the servers hold and what a search returns.  A directory maps the  *)
(* DN the server returns to the entry's attributes, each the values in the *)
(* order in which the server lists them.                                   *)
(***************************************************************************)
\* ldap3's SearchEntry: an attribute with a value that is not UTF-8 is a
\* binary attribute, every other one a text attribute; vals gives the order
\* in which the server lists the values
SearchEntry(dn, vals) ==
    [dn |-> dn,
     attrs |-> [a \in {x \in DOMAIN vals : \A i \in 1..Len(vals[x]) :
                                             IsUtf8(vals[x][i])} |-> vals[a]],
     bin_attrs |-> [a \in {x \in DOMAIN vals : \E i \in 1..Len(vals[x]) :
                                                 ~IsUtf8(vals[x][i])} |-> vals[a]]]

\* the orders in which a server may list the values of an entry's attributes
ValueOrders(attrs) ==
    {f \in [DOMAIN attrs -> UNION {Orderings(attrs[a]) : a \in DOMAIN attrs}] :
         \A a \in DOMAIN attrs : f[a] \in Orderings(attrs[a])}

\* the values of each attribute in ascending order
AscendingOrder(attrs) == [a \in DOMAIN attrs |-> SetToSorted(attrs[a])]

\* search_entries that stores an entry without the suffix under its whole DN
search_entries_KeepAll(found, base_dn) ==
    LET key(dn) == IF strip_suffix(dn, base_dn)[1]
                   THEN strip_suffix(dn, base_dn)[2] ELSE dn
        whole(k) == IF JoinDn(k, base_dn) \in DOMAIN found
                    THEN JoinDn(k, base_dn) ELSE k
    IN  [k \in {key(dn) : dn \in DOMAIN found} |-> SearchEntry(k, found[whole(k)])]

\* search_entries: the store built from the entries found; found maps each
\* returned DN to the listed values of its attributes.  An entry whose DN
\* does not end in ",<base_dn>" is left out
search_entries(found, base_dn) ==
    LET kept == {dn \in DOMAIN found : strip_suffix(dn, base_dn)[1]}
        keys == {strip_suffix(dn, base_dn)[2] : dn \in kept}
    IN  [k \in keys |-> SearchEntry(k, found[JoinDn(k, base_dn)])]

(***************************************************************************)
(* The destination server, as apply_ldap_operations changes it.            *)
(***************************************************************************)
\* the attributes with at least one value
NonEmpty(attrs) == [a \in {x \in DOMAIN attrs : attrs[x] # {}} |-> attrs[a]]

\* ldap.add(full_dn, combined_attrs): binary and text values in one entry
AddedAttrs(entry) ==
    NonEmpty([a \in (DOMAIN entry.attrs) \cup (DOMAIN entry.bin_attrs) |->
                 (IF a \in DOMAIN entry.bin_attrs
                  THEN SeqToSet(entry.bin_attrs[a]) ELSE {})
                 \cup
                 (IF a \in DOMAIN entry.attrs
                  THEN SeqToSet(entry.attrs[a]) ELSE {})])

\* one modification of an LDAP modify request
ApplyMod(attrs, m) ==
    LET old == IF m.attr \in DOMAIN attrs THEN attrs[m.attr] ELSE {}
    IN  CASE m.kind = "Replace" -> NonEmpty(MapPut(attrs, m.attr, m.vals))
          [] m.kind = "Add" -> NonEmpty(MapPut(attrs, m.attr, old \cup m.vals))
          [] m.kind = "Delete" ->
                 IF m.vals = {} THEN MapRemove(attrs, m.attr)
                 ELSE NonEmpty(MapPut(attrs, m.attr, old \ m.vals))

RECURSIVE ApplyMods(_, _)
ApplyMods(attrs, mods) ==
    IF mods = <<>> THEN attrs
    ELSE ApplyMods(ApplyMod(attrs, mods[1]), Tail(mods))

\* mods_as_bin_mods: the text mods with names and values as bytes
mods_as_bin_mods(mods) == mods

\* the value sets of listed attributes
ValueSetsOf(listed) == [a \in DOMAIN listed |-> SeqToSet(listed[a])]

\* the destinations one accepted operation may leave.  The requests carry
\* their values as HashSets, so the values of an attribute that a request
\* names end up listed in any order; the other attributes keep theirs
ApplyEffect(dir, ldap_base_dn, operation) ==
    LET full_dn == JoinDn(operation.dn, ldap_base_dn)
    IN  CASE operation.op = "Add" ->
                 {MapPut(dir, full_dn, listed) :
                      listed \in ValueOrders(AddedAttrs(operation.entry))}
          [] operation.op = "Delete" ->
                 \* delete_recursive: the entry and everything below it
                 {[d \in {x \in DOMAIN dir :
                             x # full_dn /\ ~EndsWith(x, <<44>> \o full_dn)} |->
                      dir[d]]}
          [] operation.op = "Modify" ->
                 LET combined_mods == operation.bin_mods \o
                                          mods_as_bin_mods(operation.mods)
                     named == {combined_mods[i].attr : i \in 1..Len(combined_mods)}
                     after == ApplyMods(ValueSetsOf(dir[full_dn]), combined_mods)
                 IN  {MapPut(dir, full_dn, listed) :
                          listed \in {l \in ValueOrders(after) :
                                         \A a \in (DOMAIN after) \ named :
                                             l[a] = dir[full_dn][a]}}

\* the entries of dir below full_dn
Below(dir, full_dn) == {x \in DOMAIN dir : EndsWith(x, <<44>> \o full_dn)}

\* the destinations a rejected operation may leave: a rejected add or
\* modify changes nothing; delete_recursive deletes the entries below
\* full_dn one request at a time, children before their parents, and the
\* entry itself last, so the rejected one may follow accepted ones
RejectedEffect(dir, ldap_base_dn, operation) ==
    LET full_dn == JoinDn(operation.dn, ldap_base_dn)
    IN  IF operation.op = "Delete"
        THEN {[d \in (DOMAIN dir) \ gone |-> dir[d]] :
                  gone \in {R \in SUBSET Below(dir, full_dn) :
                                \A x \in R : Below(dir, x) \subseteq R}}
        ELSE {dir}

\* a request the server cannot accept: an add of an entry that exists, a
\* modify or a delete of one that does not
Impossible(dir, ldap_base_dn, operation) ==
    LET full_dn == JoinDn(operation.dn, ldap_base_dn)
    IN  IF operation.op = "Add" THEN full_dn \in DOMAIN dir
        ELSE full_dn \notin DOMAIN dir

(***************************************************************************)
(* The state.                                                              *)
(***************************************************************************)
VARIABLES
    source_dir,            \* the entries the source holds and its searches find
    destination_dir,       \* the entries the destination holds and its searches find
    source_base_dn,        \* base DN of the source connection
    destination_base_dn,   \* base DN of the destination connection
    options,               \* the command line
    source_entries,        \* EntryStore of the source
    destination_entries,   \* EntryStore of the destination
    processed,             \* the DNs of the diff the Differ has handled
    unsorted,              \* the plan as the Differ emitted it
    ldap_operations,       \* the plan
    issued,                \* the requests sent to the destination in this run
    pc,                    \* where do_sync stands
    run                    \* the number of the run

vars == <<source_dir, destination_dir, source_base_dn, destination_base_dn,
          options, source_entries, destination_entries, processed, unsorted,
          ldap_operations, issued, pc, run>>

inputs == <<source_dir, source_base_dn, destination_base_dn, options>>

(***************************************************************************)
(* The inputs the model draws from.                                        *)
(***************************************************************************)
\* base DNs "d=s", "d=t" and "o=b,d=s"
BaseS == <<100, 61, 115>>
BaseT == <<100, 61, 116>>
BaseBS == <<111, 61, 98, 44, 100, 61, 115>>

\* pairs of source and destination base DN; the second destination lies
\* below the source's base
BasePairs == {<<BaseS, BaseT>>, <<BaseS, BaseBS>>}

\* relative DNs "o=p", "c=a,o=p", "o=o", "c=z,o=o"
DnP == <<111, 61, 112>>
DnA == <<99, 61, 97, 44, 111, 61, 112>>
DnO == <<111, 61, 111>>
DnZ == <<99, 61, 122, 44, 111, 61, 111>>
TreeDns == {DnP, DnA, DnO, DnZ}

\* object classes "t" and "i", the latter ignored
ClassT == <<116>>
ClassI == <<105>>

\* the non-empty subsets of S with at most MaxVals elements
ValueSets(S) == {V \in SUBSET S : V # {} /\ Cardinality(V) <= MaxVals}

\* text values "A", "a", "b" for the case-insensitive attribute mail; a
\* server holds no two values that its equality rule takes for equal
MailValues ==
    {V \in ValueSets({<<65>>, <<97>>, <<98>>}) :
         \A v, w \in V : to_lowercase(v) = to_lowercase(w) => v = w}

\* DN values "c=u,<base>" below the two base DNs
MemberValues(src_base, dst_base) ==
    ValueSets({JoinDn(<<99, 61, 117>>, src_base),
               JoinDn(<<99, 61, 117>>, dst_base)})

\* values of photo: two that are not UTF-8 and the text "x"
PhotoValues == ValueSets({<<200>>, <<201>>, <<120>>})

ClassValues == ValueSets({ClassT, ClassI})

\* the attributes of an entry: objectClass or none, and at most one of
\* mail, member and photo
Contents(src_base, dst_base) ==
    LET classes == {EmptyMap} \cup {[a \in {"objectClass"} |-> V] : V \in ClassValues}
        other == {EmptyMap}
                 \cup {[a \in {"mail"} |-> V] : V \in MailValues}
                 \cup {[a \in {"member"} |-> V] : V \in MemberValues(src_base, dst_base)}
                 \cup {[a \in {"photo"} |-> V] : V \in PhotoValues}
    IN  {[a \in (DOMAIN c) \cup (DOMAIN o) |->
             IF a \in DOMAIN c THEN c[a] ELSE o[a]] : c \in classes, o \in other}

Flags(add, update, delete, dry_run, ignore_attributes) ==
    [add |-> add, update |-> update, delete |-> delete, dry_run |-> dry_run,
     ignore_object_classes |-> {ClassI},
     ignore_attributes |-> ignore_attributes]

\* the state of a run that has not searched yet
Fresh ==
    /\ source_entries = EmptyMap
    /\ destination_entries = EmptyMap
    /\ processed = {}
    /\ unsorted = <<>>
    /\ ldap_operations = <<>>
    /\ issued = <<>>
    /\ pc = "search_source"

\* trees of entries on the two sides, under every choice of the four flags:
\* each relative DN is selected on neither side, on one, or on both, and
\* then with equal or with different attributes
InitTree ==
    \E st \in [TreeDns -> {"none", "src", "dst", "same", "diff"}],
       add, update, delete, dry_run \in BOOLEAN :
        LET plain == [a \in {"objectClass"} |-> <<ClassT>>]
            more == [a \in {"objectClass", "cn"} |->
                        IF a = "cn" THEN <<<<120>>>> ELSE <<ClassT>>]
        IN  /\ source_base_dn = BaseS
            /\ destination_base_dn = BaseT
            /\ options = Flags(add, update, delete, dry_run, {})
            /\ source_dir =
                   [d \in {JoinDn(r, BaseS) : r \in
                              {x \in TreeDns : st[x] \in {"src", "same", "diff"}}} |->
                       plain]
            /\ destination_dir =
                   [d \in {JoinDn(r, BaseT) : r \in
                              {x \in TreeDns : st[x] \in {"dst", "same", "diff"}}} |->
                       IF st[strip_suffix(d, BaseT)[2]] = "diff" THEN more ELSE plain]

\* one entry with every choice of attributes on the two sides, all actions
\* enabled; the source lists values in ascending order, the destination in
\* any order
InitAttrs ==
    \E bases \in BasePairs, ignore_attributes \in {{}, {"mail"}} :
        \E s \in Contents(bases[1], bases[2]),
           d \in [on : BOOLEAN, attrs : Contents(bases[1], bases[2])] :
            /\ bases[2] = BaseBS =>
                   "member" \in (DOMAIN s) \cup (IF d.on THEN DOMAIN d.attrs ELSE {})
            /\ ignore_attributes # {} =>
                   "mail" \in (DOMAIN s) \cup (IF d.on THEN DOMAIN d.attrs ELSE {})
            /\ ~d.on => d.attrs = EmptyMap
            /\ source_base_dn = bases[1]
            /\ destination_base_dn = bases[2]
            /\ options = Flags(TRUE, TRUE, TRUE, FALSE, ignore_attributes)
            /\ source_dir = [x \in {JoinDn(DnA, bases[1])} |-> AscendingOrder(s)]
            /\ \E listed \in ValueOrders(d.attrs) :
                   destination_dir =
                       IF d.on THEN [x \in {JoinDn(DnA, bases[2])} |-> listed]
                       ELSE EmptyMap

\* DNs "o=q,D=S" and "o=q,D=T": the entry o=q as a server returns it that
\* spells the base DN in capitals
ForeignS == <<111, 61, 113, 44, 68, 61, 83>>
ForeignT == <<111, 61, 113, 44, 68, 61, 84>>

\* the entry o=p on neither side, on one or on both, and on one side or on
\* both an entry whose returned DN does not end in the base DN
InitForeign ==
    \E st \in {"none", "src", "dst", "same", "diff"},
       fs, fd, add, update, delete \in BOOLEAN :
        LET plain == [a \in {"objectClass"} |-> <<ClassT>>]
            more == [a \in {"objectClass", "cn"} |->
                        IF a = "cn" THEN <<<<120>>>> ELSE <<ClassT>>]
        IN  /\ fs \/ fd
            /\ source_base_dn = BaseS
            /\ destination_base_dn = BaseT
            /\ options = Flags(add, update, delete, FALSE, {})
            /\ source_dir =
                   [d \in (IF st \in {"src", "same", "diff"}
                           THEN {JoinDn(DnP, BaseS)} ELSE {})
                          \cup (IF fs THEN {ForeignS} ELSE {}) |-> plain]
            /\ destination_dir =
                   [d \in (IF st \in {"dst", "same", "diff"}
                           THEN {JoinDn(DnP, BaseT)} ELSE {})
                          \cup (IF fd THEN {ForeignT} ELSE {}) |->
                       IF d = JoinDn(DnP, BaseT) /\ st = "diff" THEN more ELSE plain]

Init ==
    /\ run = 1
    /\ Fresh
    /\ (InitTree \/ InitAttrs \/ InitForeign)

(***************************************************************************)
(* The steps of do_sync.                                                   *)
(***************************************************************************)
\* the diff of the two stores
DiffAltered == HashMapAltered(source_entries, destination_entries)
DiffRemoved == HashMapRemoved(source_entries, destination_entries)

\* the search of the source
SearchSource ==
    /\ pc = "search_source"
    /\ source_entries' = search_entries(source_dir, source_base_dn)
    /\ pc' = "search_destination"
    /\ UNCHANGED <<inputs, destination_dir, destination_entries, processed,
                   unsorted, ldap_operations, issued, run>>

\* the search of the destination
SearchDestination ==
    /\ pc = "search_destination"
    /\ destination_entries' = search_entries(destination_dir, destination_base_dn)
    /\ pc' = "diff"
    /\ UNCHANGED <<inputs, destination_dir, source_entries, processed,
                   unsorted, ldap_operations, issued, run>>

\* AlteredOps that emits the Modify whether or not it has mods
AlteredOps_EmptyModify(altered_dn, o1, o2, o3, o4) ==
    IF altered_dn \in DOMAIN source_entries
    THEN LET s == source_entries[altered_dn]
             d == destination_entries[altered_dn]
             ldap_mods ==
                 TextRemovedMods(
                     TextAlteredMods(<<>>, o1, s, source_base_dn, d,
                                     destination_base_dn, options),
                     o2, s, source_base_dn, destination_base_dn, options)
             ldap_bin_mods ==
                 BinRemovedMods(BinAlteredMods(<<>>, o3, s, d, options),
                                o4, s, options)
         IN  IF options.update
             THEN <<OpModify(s.dn, ldap_mods, ldap_bin_mods)>>
             ELSE <<>>
    ELSE IF options.delete THEN <<OpDelete(altered_dn)>> ELSE <<>>

\* AlteredOps that emits the Delete whether or not delete is enabled
AlteredOps_AlwaysDelete(altered_dn, o1, o2, o3, o4) ==
    IF altered_dn \in DOMAIN source_entries
    THEN LET s == source_entries[altered_dn]
             d == destination_entries[altered_dn]
             ldap_mods ==
                 TextRemovedMods(
                     TextAlteredMods(<<>>, o1, s, source_base_dn, d,
                                     destination_base_dn, options),
                     o2, s, source_base_dn, destination_base_dn, options)
             ldap_bin_mods ==
                 BinRemovedMods(BinAlteredMods(<<>>, o3, s, d, options),
                                o4, s, options)
         IN  IF options.update /\ ~(ldap_mods = <<>> /\ ldap_bin_mods = <<>>)
             THEN <<OpModify(s.dn, ldap_mods, ldap_bin_mods)>>
             ELSE <<>>
    ELSE <<OpDelete(altered_dn)>>

\* the operations one altered DN adds to the plan; the four orders are the
\* orders in which the maps and sets of the entry's diff yield their keys
AlteredOps(altered_dn, o1, o2, o3, o4) ==
    IF altered_dn \in DOMAIN source_entries
    THEN LET s == source_entries[altered_dn]
             d == destination_entries[altered_dn]
             ldap_mods ==
                 TextRemovedMods(
                     TextAlteredMods(<<>>, o1, s, source_base_dn, d,
                                     destination_base_dn, options),
                     o2, s, source_base_dn, destination_base_dn, options)
             ldap_bin_mods ==
                 BinRemovedMods(BinAlteredMods(<<>>, o3, s, d, options),
                                o4, s, options)
         IN  IF options.update /\ ~(ldap_mods = <<>> /\ ldap_bin_mods = <<>>)
             THEN <<OpModify(s.dn, ldap_mods, ldap_bin_mods)>>
             ELSE <<>>
    ELSE IF options.delete THEN <<OpDelete(altered_dn)>> ELSE <<>>

\* one round of the loop over diff.altered, which a HashMap yields in any
\* order
DifferAltered ==
    /\ pc = "diff"
    /\ \E altered_dn \in DiffAltered \ processed :
           LET s == IF altered_dn \in DOMAIN source_entries
                    THEN source_entries[altered_dn]
                    ELSE [dn |-> <<>>, attrs |-> EmptyMap, bin_attrs |-> EmptyMap]
               d == destination_entries[altered_dn]
           IN  \E o1 \in Orderings(HashMapAltered(s.attrs, d.attrs)),
                  o2 \in Orderings(HashMapRemoved(s.attrs, d.attrs)),
                  o3 \in Orderings(HashMapAltered(s.bin_attrs, d.bin_attrs)),
                  o4 \in Orderings(HashMapRemoved(s.bin_attrs, d.bin_attrs)) :
                   /\ ldap_operations' =
                          ldap_operations \o AlteredOps(altered_dn, o1, o2, o3, o4)
                   /\ processed' = processed \cup {altered_dn}
    /\ UNCHANGED <<inputs, destination_dir, source_entries, destination_entries,
                   unsorted, issued, pc, run>>

\* one round of the loop over diff.removed, after the loop over diff.altered
DifferRemoved ==
    /\ pc = "diff"
    /\ DiffAltered \subseteq processed
    /\ \E removed_dn \in DiffRemoved \ processed :
           /\ ldap_operations' =
                  IF options.add
                  THEN Append(ldap_operations,
                              OpAdd(NewEntry(source_entries[removed_dn],
                                             source_base_dn, destination_base_dn,
                                             options)))
                  ELSE ldap_operations
           /\ processed' = processed \cup {removed_dn}
    /\ UNCHANGED <<inputs, destination_dir, source_entries, destination_entries,
                   unsorted, issued, pc, run>>

\* Sort that goes on to apply the plan whatever dry_run says
Sort_IgnoreDryRun ==
    /\ pc = "diff"
    /\ DiffAltered \cup DiffRemoved \subseteq processed
    /\ unsorted' = ldap_operations
    /\ \E impl \in SortImpls : ldap_operations' = sort_by(impl, ldap_operations)
    /\ pc' = IF ldap_operations = <<>> THEN "done" ELSE "apply"
    /\ UNCHANGED <<inputs, destination_dir, source_entries, destination_entries,
                   processed, issued, run>>

\* ldap_operations.sort_by(...), and the test of dry_run
Sort ==
    /\ pc = "diff"
    /\ DiffAltered \cup DiffRemoved \subseteq processed
    /\ unsorted' = ldap_operations
    /\ \E impl \in SortImpls : ldap_operations' = sort_by(impl, ldap_operations)
    /\ pc' = IF options.dry_run \/ ldap_operations = <<>> THEN "done" ELSE "apply"
    /\ UNCHANGED <<inputs, destination_dir, source_entries, destination_entries,
                   processed, issued, run>>

\* the next operation of apply_ldap_operations, accepted by the server
ApplyAccepted ==
    /\ pc = "apply"
    /\ LET operation == ldap_operations[Len(issued) + 1]
       IN  /\ ~Impossible(destination_dir, destination_base_dn, operation)
           /\ destination_dir' \in
                  ApplyEffect(destination_dir, destination_base_dn, operation)
           /\ issued' = Append(issued, operation)
    /\ pc' = IF Len(issued) + 1 = Len(ldap_operations) THEN "done" ELSE "apply"
    /\ UNCHANGED <<inputs, source_entries, destination_entries, processed,
                   unsorted, ldap_operations, run>>

\* ApplyRejected that goes on with the next operation of the plan
ApplyRejected_Skip ==
    /\ pc = "apply"
    /\ issued' = Append(issued, ldap_operations[Len(issued) + 1])
    /\ pc' = IF Len(issued) + 1 = Len(ldap_operations) THEN "done" ELSE "apply"
    /\ UNCHANGED <<inputs, destination_dir, source_entries, destination_entries,
                   processed, unsorted, ldap_operations, run>>

\* the next operation, rejected: the ? ends do_sync with the error.  The
\* requests of a delete_recursive that came before the rejected one stay
\* in effect
ApplyRejected ==
    /\ pc = "apply"
    /\ LET operation == ldap_operations[Len(issued) + 1]
       IN  /\ destination_dir' \in
                  RejectedEffect(destination_dir, destination_base_dn, operation)
           /\ issued' = Append(issued, operation)
    /\ pc' = "error"
    /\ UNCHANGED <<inputs, source_entries, destination_entries,
                   processed, unsorted, ldap_operations, run>>

\* the program is started again after a run that applied its plan
Rerun ==
    /\ pc = "done"
    /\ ~options.dry_run
    /\ run < MaxRuns
    /\ run' = run + 1
    /\ source_entries' = EmptyMap
    /\ destination_entries' = EmptyMap
    /\ processed' = {}
    /\ unsorted' = <<>>
    /\ ldap_operations' = <<>>
    /\ issued' = <<>>
    /\ pc' = "search_source"
    /\ UNCHANGED <<inputs, destination_dir>>

Next ==
    \/ SearchSource
    \/ SearchDestination
    \/ DifferAltered
    \/ DifferRemoved
    \/ Sort
    \/ ApplyAccepted
    \/ ApplyRejected
    \/ Rerun

Spec == Init /\ [][Next]_vars

(***************************************************************************)
(* The claims.                                                             *)
(***************************************************************************)
\* the plan has been sorted
Sorted == pc \in {"apply", "done", "error"}

\* the positions of the plan
Positions == 1..Len(ldap_operations)

\* the operations of kind op in the plan, with their positions
At(i, op) == ldap_operations[i].op = op

\* C1: in the sorted plan, of two Adds on an ancestor p and a descendant c
\* the Add of p stands before the Add of c
C1_AddParentFirst ==
    Sorted =>
        \A i, j \in Positions :
            /\ At(i, "Add") /\ At(j, "Add")
            /\ IsAncestor(ldap_operations[i].dn, ldap_operations[j].dn)
            => i < j

\* a sorted plan with the Add of a parent and of its child, which the
\* Differ had emitted child first
C1_Witness ==
    /\ Sorted
    /\ \E i, j \in Positions :
           /\ i < j /\ At(i, "Add") /\ At(j, "Add")
           /\ IsAncestor(ldap_operations[i].dn, ldap_operations[j].dn)
           /\ \E k, l \in 1..Len(unsorted) :
                  /\ k < l
                  /\ unsorted[k] = ldap_operations[j]
                  /\ unsorted[l] = ldap_operations[i]

\* C2: in the sorted plan, of two Deletes on an ancestor p and a descendant
\* c the Delete of c stands before the Delete of p
C2_DeleteChildFirst ==
    Sorted =>
        \A i, j \in Positions :
            /\ At(i, "Delete") /\ At(j, "Delete")
            /\ IsAncestor(ldap_operations[i].dn, ldap_operations[j].dn)
            => j < i

\* add, update and delete are enabled and dry_run is off
AllActions ==
    options.add /\ options.update /\ options.delete /\ ~options.dry_run

\* C3: when a run with add, update and delete enabled has applied its whole
\* plan, the plan of the second run is empty
C3_SecondRunEmpty ==
    (run = 2 /\ Sorted /\ AllActions) => ldap_operations = <<>>

\* the attribute names of the model
AttrNames == {"objectClass", "cn", "mail", "member", "photo"}

\* the equality rule of the attribute is case-insensitive
CaseInsensitive(a) ==
    Equality(a) # <<>> /\ describes_case_insensitive_match(Equality(a)[1])

\* the values the destination is to hold for attribute a of source entry s
ExpectedValues(s, a) ==
    IF a \in DOMAIN s.attrs
    THEN LET kept == IF a = "objectClass"
                     THEN SeqToSet(s.attrs[a]) \ options.ignore_object_classes
                     ELSE SeqToSet(s.attrs[a])
         IN  IF Syntax(a) = <<DN_SYNTAX_OID>>
             THEN {replace(v, source_base_dn, destination_base_dn) : v \in kept}
             ELSE kept
    ELSE IF a \in DOMAIN s.bin_attrs THEN SeqToSet(s.bin_attrs[a])
    ELSE {}

\* two value sets are equal, up to case where the equality rule ignores it
SameValues(a, X, Y) ==
    \/ X = Y
    \/ /\ CaseInsensitive(a)
       /\ {to_lowercase(x) : x \in X} = {to_lowercase(y) : y \in Y}

\* the destination holds the entries of the source store and, in each
\* attribute that is not ignored, the expected values
Converged ==
    /\ {strip_suffix(d, destination_base_dn)[2] : d \in DOMAIN destination_dir}
           = DOMAIN source_entries
    /\ \A k \in DOMAIN source_entries :
           LET full_dn == JoinDn(k, destination_base_dn)
           IN  full_dn \in DOMAIN destination_dir =>
                   \A a \in AttrNames \ options.ignore_attributes :
                       SameValues(a, ExpectedValues(source_entries[k], a),
                                  IF a \in DOMAIN destination_dir[full_dn]
                                  THEN SeqToSet(destination_dir[full_dn][a])
                                  ELSE {})

\* C4: after a run with add, update and delete enabled whose requests were
\* all accepted, the destination matches the filtered source
C4_Converged == (pc = "done" /\ AllActions) => Converged

\* the pairs <<attribute, values>> of DN syntax that the operation at
\* position i carries in an Add entry or in a Replace mod
EmittedDnValues(i) ==
    IF At(i, "Add")
    THEN {<<a, SeqToSet(ldap_operations[i].entry.attrs[a])>> :
              a \in {x \in DOMAIN ldap_operations[i].entry.attrs :
                        Syntax(x) = <<DN_SYNTAX_OID>>}}
    ELSE IF At(i, "Modify")
    THEN {<<m.attr, m.vals>> :
              m \in {x \in SeqToSet(ldap_operations[i].mods) :
                        x.kind = "Replace" /\ Syntax(x.attr) = <<DN_SYNTAX_OID>>}}
    ELSE {}

\* C5 as stated: no DN-syntax value of an Add entry or of a Replace mod
\* contains source_base
C5_NoSourceBase ==
    \A i \in Positions : \A e \in EmittedDnValues(i) :
        \A v \in e[2] : ~Contains(v, source_base_dn)

\* C5, amended: the DN-syntax values of an Add entry or of a Replace mod are
\* the source entry's values of that attribute, each with the occurrences of
\* source_base substituted by destination_base
C5_SourceBaseSubstituted ==
    \A i \in Positions : \A e \in EmittedDnValues(i) :
        LET s == source_entries[ldap_operations[i].dn]
        IN  /\ e[1] \in DOMAIN s.attrs
            /\ e[2] = {replace(w, source_base_dn, destination_base_dn) :
                          w \in SeqToSet(s.attrs[e[1]])}

\* a plan that carries a DN-syntax value rewritten below a destination_base
\* that contains source_base
C5_Witness ==
    /\ Contains(destination_base_dn, source_base_dn)
    /\ \E i \in Positions : \E e \in EmittedDnValues(i) : \E v \in e[2] :
           /\ Contains(v, destination_base_dn)
           /\ v \notin SeqToSet(source_entries[ldap_operations[i].dn].attrs[e[1]])

\* the values X and the listed values differ at most in the case of letters
DifferOnlyInCase(X, listed) ==
    /\ Cardinality(SeqToSet(listed)) = Len(listed)
    /\ \E f \in [X -> SeqToSet(listed)] :
           /\ \A x, y \in X : f[x] = f[y] => x = y
           /\ \A y \in SeqToSet(listed) : \E x \in X : f[x] = y
           /\ \A x \in X : to_lowercase(x) = to_lowercase(f[x])

\* the Modify operations of the plan on relative DN k
ModifiesOf(k) ==
    {i \in Positions : At(i, "Modify") /\ ldap_operations[i].dn = k}

\* the text and binary mods of the Modify at position i
ModsOf(i) ==
    SeqToSet(ldap_operations[i].mods) \cup SeqToSet(ldap_operations[i].bin_mods)

\* the DNs the Differ has handled that both stores hold
ProcessedInBoth ==
    processed \cap (DOMAIN source_entries) \cap (DOMAIN destination_entries)

\* attribute a is the same, value for value, in the entries s and d
SameAttr(s, d, a) ==
    /\ MapGet(s.attrs, a) = MapGet(d.attrs, a)
    /\ MapGet(s.bin_attrs, a) = MapGet(d.bin_attrs, a)

\* source and destination values of a case-insensitive text attribute a of
\* the entry at k differ at most in case
CaseOnly(k, a) ==
    /\ a \in DOMAIN source_entries[k].attrs
    /\ a \in DOMAIN destination_entries[k].attrs
    /\ CaseInsensitive(a)
    /\ DifferOnlyInCase(ExpectedValues(source_entries[k], a),
                        destination_entries[k].attrs[a])

\* C6: when source and destination values of a text attribute with a
\* case-insensitive equality rule differ only in case, mod_value returns no
\* mod for it, and no Modify is emitted when it is the only difference
C6_CaseInsensitiveNoOp ==
    \A k \in ProcessedInBoth, a \in AttrNames :
        CaseOnly(k, a) =>
            /\ mod_value(a, source_entries[k], source_base_dn,
                         <<destination_entries[k]>>, destination_base_dn,
                         options) = <<>>
            /\ \A i \in ModifiesOf(k) : \A m \in ModsOf(i) : m.attr # a
            /\ (\A b \in AttrNames \ {a} :
                    SameAttr(source_entries[k], destination_entries[k], b))
                   => ModifiesOf(k) = {}

\* an entry handled by the Differ whose only difference is the case of a
\* value of mail, with update enabled and mail not ignored
C6_Witness ==
    \E k \in ProcessedInBoth :
        /\ options.update
        /\ "mail" \notin options.ignore_attributes
        /\ CaseOnly(k, "mail")
        /\ SeqToSet(source_entries[k].attrs["mail"])
               # SeqToSet(destination_entries[k].attrs["mail"])
        /\ \A b \in AttrNames \ {"mail"} :
               SameAttr(source_entries[k], destination_entries[k], b)
        /\ ModifiesOf(k) = {}

C8_IgnoredClassesAbsent ==
    \A i \in Positions :
        /\ (At(i, "Add") /\ "objectClass" \in DOMAIN ldap_operations[i].entry.attrs)
               => SeqToSet(ldap_operations[i].entry.attrs["objectClass"])
                      \cap options.ignore_object_classes = {}
        /\ At(i, "Modify") =>
               \A m \in ModsOf(i) :
                   (m.attr = "objectClass" /\ m.kind \in {"Replace", "Add"})
                       => m.vals \cap options.ignore_object_classes = {}

\* the plan holds a Replace of objectClass for an entry whose source lists
\* an ignored object class
C8_Witness ==
    \E i \in Positions :
        /\ At(i, "Modify")
        /\ \E m \in ModsOf(i) : m.attr = "objectClass" /\ m.kind = "Replace"
        /\ SeqToSet(source_entries[ldap_operations[i].dn].attrs["objectClass"])
               \cap options.ignore_object_classes # {}

\* attribute a stays as it is: no value differs, or mod_value's comparisons
\* take the values for equal
Unchanged(s, d, a) ==
    \/ SameAttr(s, d, a)
    \/ /\ a \in DOMAIN s.attrs /\ a \in DOMAIN d.attrs
       /\ MapGet(s.bin_attrs, a) = MapGet(d.bin_attrs, a)
       /\ \/ /\ ExpectedValues(s, a) = SeqToSet(d.attrs[a])
             /\ Cardinality(SeqToSet(d.attrs[a])) = Len(d.attrs[a])
          \/ /\ CaseInsensitive(a)
             /\ DifferOnlyInCase(ExpectedValues(s, a), d.attrs[a])

\* C9: every Modify of the plan has a mod, and an entry of both stores of
\* which every attribute that is not ignored stays as it is has no Modify
C9_NoEmptyModify ==
    /\ \A i \in Positions : At(i, "Modify") => ModsOf(i) # {}
    /\ \A k \in ProcessedInBoth :
           (\A a \in AttrNames \ options.ignore_attributes :
                Unchanged(source_entries[k], destination_entries[k], a))
               => ModifiesOf(k) = {}

\* an entry the Differ has handled, with update enabled, that differs on
\* the two sides in an ignored attribute and in nothing else
C9_Witness ==
    \E k \in ProcessedInBoth :
        /\ options.update
        /\ source_entries[k] # destination_entries[k]
        /\ \E a \in options.ignore_attributes :
               ~SameAttr(source_entries[k], destination_entries[k], a)
        /\ \A a \in AttrNames \ options.ignore_attributes :
               Unchanged(source_entries[k], destination_entries[k], a)
        /\ ModifiesOf(k) = {}

\* the plan holds an operation of kind op on relative DN k
HasOp(op, k) == \E i \in Positions : At(i, op) /\ ldap_operations[i].dn = k

\* C10: the sorted plan has an Add for d exactly when d is only in the
\* source store and add is enabled, a Delete exactly when d is only in the
\* destination store and delete is enabled, a Modify only when d is in both
\* and update is enabled; with the three flags off it is empty
C10_FlagsGatePlan ==
    Sorted =>
        /\ \A d \in (DOMAIN source_entries) \cup (DOMAIN destination_entries)
                    \cup {ldap_operations[i].dn : i \in Positions} :
               /\ HasOp("Add", d) <=>
                      /\ d \in (DOMAIN source_entries) \ (DOMAIN destination_entries)
                      /\ options.add
               /\ HasOp("Delete", d) <=>
                      /\ d \in (DOMAIN destination_entries) \ (DOMAIN source_entries)
                      /\ options.delete
               /\ HasOp("Modify", d) =>
                      /\ d \in (DOMAIN source_entries) \cap (DOMAIN destination_entries)
                      /\ options.update
        /\ (~options.add /\ ~options.update /\ ~options.delete)
               => ldap_operations = <<>>

\* a sorted plan with an Add and a Modify, and no Delete for an entry that
\* only the destination holds, delete being disabled
C10_Witness ==
    /\ Sorted
    /\ ~options.delete
    /\ (DOMAIN destination_entries) \ (DOMAIN source_entries) # {}
    /\ \E i, j \in Positions : At(i, "Add") /\ At(j, "Modify")

\* the requests sent so far are the first operations of the plan, in its
\* order
IssuedPrefix ==
    /\ Len(issued) <= Len(ldap_operations)
    /\ \A i \in 1..Len(issued) : issued[i] = ldap_operations[i]

\* the request a step sends, if it sends one
Sends == issued' # issued /\ issued' # <<>>

\* C11: fail-fast apply without rollback.  The requests issued are always a
\* prefix of the sorted plan, and each step issues at most the one next
\* operation of the plan; a request the destination cannot accept ends the
\* run in error; nothing is issued after the error; and the step that is
\* rejected leaves every entry outside the subtree of the rejected
\* operation as the accepted operations left it, creating no entry
C11_FailFast ==
    /\ [](IssuedPrefix /\ (pc = "error" => issued # <<>>))
    /\ [][/\ pc # "error"
          /\ Sends =>
                 /\ issued' = Append(issued, ldap_operations[Len(issued) + 1])
                 /\ ldap_operations' = ldap_operations
          /\ (pc = "apply"
                 /\ Impossible(destination_dir, destination_base_dn,
                               ldap_operations[Len(issued) + 1]))
                 => pc' = "error"
          /\ pc' = "error" =>
                 LET rejected == issued'[Len(issued')]
                     full_dn == JoinDn(rejected.dn, destination_base_dn)
                 IN  /\ DOMAIN destination_dir' \subseteq DOMAIN destination_dir
                     /\ \A x \in (DOMAIN destination_dir)
                                     \ Below(destination_dir, full_dn) :
                            /\ x \in DOMAIN destination_dir'
                            /\ destination_dir'[x] = destination_dir[x]
         ]_vars

\* a run ended by a rejected request after an accepted Add whose entry is
\* at the destination, with operations of the plan left over
C11_Witness ==
    /\ pc = "error"
    /\ Len(issued) >= 2
    /\ Len(issued) < Len(ldap_operations)
    /\ issued[1].op = "Add"
    /\ issued[1].dn \notin DOMAIN destination_entries
    /\ JoinDn(issued[1].dn, destination_base_dn) \in DOMAIN destination_dir

\* C12: with dry_run set no request is ever issued to the destination and
\* no step changes the destination; at the end of the run the destination
\* still holds what the search found, every DN of the diff has been
\* handled, and the plan is the emitted plan, sorted
C12_DryRunWritesNothing ==
    /\ [](options.dry_run =>
              /\ issued = <<>>
              /\ pc \notin {"apply", "error"}
              /\ pc = "done" =>
                     /\ search_entries(destination_dir, destination_base_dn)
                            = destination_entries
                     /\ DiffAltered \cup DiffRemoved \subseteq processed
                     /\ \E impl \in SortImpls :
                            ldap_operations = sort_by(impl, unsorted))
    /\ [][options.dry_run => destination_dir' = destination_dir]_vars

\* a dry run that has ended with a plan of several operations that the
\* sort has reordered
C12_Witness ==
    /\ options.dry_run
    /\ pc = "done"
    /\ Len(ldap_operations) >= 2
    /\ ldap_operations # unsorted

\* the returned DNs of dir that do not end in ",<base_dn>"
Dropped(dir, base_dn) == {x \in DOMAIN dir : ~strip_suffix(x, base_dn)[1]}

\* every entry of the store has a key and a dn field that, followed by
\* ",<base_dn>", give a DN of dir, and no entry of the store stands for a
\* dropped DN
StrippedStore(store, dir, base_dn) ==
    /\ \A k \in DOMAIN store :
           /\ store[k].dn = k
           /\ JoinDn(k, base_dn) \in DOMAIN dir
    /\ \A x \in Dropped(dir, base_dn) :
           /\ x \notin DOMAIN store
           /\ \A k \in DOMAIN store : JoinDn(k, base_dn) # x

\* C13: once a side has been searched, and until the run changes the
\* destination, its store satisfies StrippedStore, and every operation of
\* the plan is on the key of a stored entry, so that none is about a
\* dropped DN
C13_SuffixStripped ==
    /\ pc # "search_source" =>
           StrippedStore(source_entries, source_dir, source_base_dn)
    /\ (pc \notin {"search_source", "search_destination"} /\ issued = <<>>) =>
           /\ StrippedStore(destination_entries, destination_dir,
                            destination_base_dn)
           /\ \A i \in Positions :
                  /\ ldap_operations[i].dn \in
                         (DOMAIN source_entries) \cup (DOMAIN destination_entries)
                  /\ \A x \in Dropped(source_dir, source_base_dn)
                                \cup Dropped(destination_dir, destination_base_dn) :
                         /\ ldap_operations[i].dn # x
                         /\ JoinDn(ldap_operations[i].dn, source_base_dn) # x
                         /\ JoinDn(ldap_operations[i].dn, destination_base_dn) # x

\* a sorted plan of a run with add and delete enabled in which each side
\* returned an entry that was dropped and one that was stored
C13_Witness ==
    /\ Sorted
    /\ issued = <<>>
    /\ options.add /\ options.delete
    /\ Dropped(source_dir, source_base_dn) # {}
    /\ Dropped(destination_dir, destination_base_dn) # {}
    /\ source_entries # EmptyMap
    /\ destination_entries # EmptyMap
    /\ ldap_operations # <<>>

\* the operations of kind op in seq, in the order of seq
OfKind(seq, op) == SelectSeq(seq, LAMBDA o : o.op = op)

\* seq is in ascending order of DN, ancestors before descendants
AncestorFirst(seq) ==
    \A i, j \in 1..Len(seq) :
        i < j => DnCmp(ParseDn(seq[i].dn), ParseDn(seq[j].dn)) = "Less"

\* seq is in descending order of DN, descendants before ancestors
DescendantFirst(seq) ==
    \A i, j \in 1..Len(seq) :
        i < j => DnCmp(ParseDn(seq[i].dn), ParseDn(seq[j].dn)) = "Greater"

\* C14: the sorted plan is its Adds, ancestor first, followed by the
\* Modifies in the order in which the Differ emitted them, followed by its
\* Deletes, descendant first, and holds the operations the Differ emitted
C14_PartitionedPlan ==
    Sorted =>
        LET adds == OfKind(ldap_operations, "Add")
            modifies == OfKind(ldap_operations, "Modify")
            deletes == OfKind(ldap_operations, "Delete")
        IN  /\ ldap_operations = adds \o modifies \o deletes
            /\ AncestorFirst(adds)
            /\ modifies = OfKind(unsorted, "Modify")
            /\ DescendantFirst(deletes)
            /\ SeqToSet(ldap_operations) = SeqToSet(unsorted)

\* the position of operation o in seq
PosIn(seq, o) == CHOOSE k \in 1..Len(seq) : seq[k] = o

\* no later operation of the plan compares Less than an earlier one
NoneOutOfOrder ==
    \A i, j \in Positions :
        i < j => operation_apply_cmp(ldap_operations[j], ldap_operations[i]) # "Less"

\* two operations that compare Equal or are incomparable stand in the
\* order in which the Differ emitted them
EqualKeepOrder ==
    \A i, j \in Positions :
        (i < j /\ operation_apply_cmp(ldap_operations[i], ldap_operations[j])
                      \in {"Equal", "None"})
        => PosIn(unsorted, ldap_operations[i]) < PosIn(unsorted, ldap_operations[j])

\* C15: sort_by with operation_apply_cmp sorts whatever list the Differ
\* emits: in the sorted plan no later operation compares Less than an earlier
\* one, and operations that compare Equal or are incomparable keep the order
\* of their emission
C15_SortIsCorrect == Sorted => (NoneOutOfOrder /\ EqualKeepOrder)

\* the text mods of the Modifies of the plan on the entry k
TextModsOf(k) ==
    UNION {SeqToSet(ldap_operations[i].mods) : i \in ModifiesOf(k)}

\* the DNs that both stores hold
InBoth == (DOMAIN source_entries) \cap (DOMAIN destination_entries)

\* the text attributes of entry e that entry f lacks and that are not ignored
OnlyIn(e, f) ==
    ((DOMAIN e.attrs) \ (DOMAIN f.attrs)) \ options.ignore_attributes

\* C16 as the claim has it: with update enabled, for an entry on both
\* sides, a text attribute that is not ignored and that the destination
\* entry has and the source entry lacks gets an Add mod
C16_DestinationOnlyAttrAdded ==
    (Sorted /\ options.update) =>
        \A k \in InBoth :
            \A a \in OnlyIn(destination_entries[k], source_entries[k]) :
                \E m \in TextModsOf(k) : m.kind = "Add" /\ m.attr = a

\* C16, amended: with update enabled, for an entry on both sides, a text
\* attribute that is not ignored and that the source entry has and the
\* destination entry lacks gets the mod Add with the source values after
\* objectClass filtering and DN rewriting; one that the destination entry
\* has and the source entry lacks gets the mod Delete with no values, and
\* no Add
C16_SourceOnlyAttrAdded ==
    (Sorted /\ options.update) =>
        \A k \in InBoth :
            /\ \A a \in OnlyIn(source_entries[k], destination_entries[k]) :
                   Mod("Add", a,
                       ReplacementValues(a, SeqToSet(source_entries[k].attrs[a]),
                                         source_base_dn, destination_base_dn,
                                         options))
                       \in TextModsOf(k)
            /\ \A a \in OnlyIn(destination_entries[k], source_entries[k]) :
                   /\ Mod("Delete", a, {}) \in TextModsOf(k)
                   /\ \A m \in TextModsOf(k) : m.attr = a => m.kind = "Delete"

\* a sorted plan with a Modify of an entry that has a text attribute only
\* in the source, whose values are filtered or rewritten, and one only in
\* the destination
C16_Witness ==
    /\ Sorted
    /\ options.update
    /\ \E k \in InBoth :
           /\ \E a \in OnlyIn(source_entries[k], destination_entries[k]) :
                  /\ \E m \in TextModsOf(k) : m.kind = "Add" /\ m.attr = a
                  /\ ReplacementValues(a, SeqToSet(source_entries[k].attrs[a]),
                                       source_base_dn, destination_base_dn, options)
                         # SeqToSet(source_entries[k].attrs[a])
           /\ \E b \in OnlyIn(destination_entries[k], source_entries[k]) :
                  \E m \in TextModsOf(k) : m.kind = "Delete" /\ m.attr = b

\* mods holds at most one mod of each kind on each attribute
OnePerKind(mods) ==
    \A m, n \in 1..Len(mods) :
        (mods[m].attr = mods[n].attr /\ mods[m].kind = mods[n].kind) => m = n

\* C17: in every Modify of the plan, the text mods and the binary mods each
\* hold at most one mod of each kind on each attribute
C17_OneModPerKind ==
    \A i \in Positions :
        At(i, "Modify") =>
            /\ OnePerKind(ldap_operations[i].mods)
            /\ OnePerKind(ldap_operations[i].bin_mods)

\* a Modify with a Replace of a text attribute for which the diff reports
\* several value changes, and with the Delete of a binary attribute that
\* only the destination entry has
C17_Witness ==
    \E k \in InBoth :
        LET s == source_entries[k]
            d == destination_entries[k]
        IN  /\ \E a \in (DOMAIN s.attrs) \cap (DOMAIN d.attrs) :
                   /\ Len(AlteredChanges(s.attrs, d.attrs, a)) >= 2
                   /\ \E m \in TextModsOf(k) : m.kind = "Replace" /\ m.attr = a
            /\ \E b \in (DOMAIN d.bin_attrs) \ (DOMAIN s.bin_attrs) :
                   \E i \in ModifiesOf(k) :
                       Mod("Delete", b, {}) \in SeqToSet(ldap_operations[i].bin_mods)

====
